---- MODULE Spec2Model ----
(***************************************************************************)
(* A model of youtube-live.py: the HDHomeRun lineup endpoint, and the      *)
(* /stream endpoint with its resolution chain (streamlink probe, yt-dlp    *)
(* fallback, re-probe), its streaming helper process, the relay generator  *)
(* and the response's on-close cleanup.                                    *)
(*                                                                         *)
(* Text is modelled as a sequence of one-character strings, so that        *)
(* trimming, searching and percent-decoding are computed, not assumed.     *)
(***************************************************************************)
EXTENDS Integers, Sequences, FiniteSets, TLC

\* ------------------------------------------------------------------ bounds

\* Most channel elements in a youtubelinks.xml document.
MaxCatalog == 2

\* Most 4096-byte chunks a helper writes to its stdout in one session.
MaxChunks == 1

\* Concurrent /stream requests.
NumSessions == 2

\* Seconds the clock of the discovery threads runs.
MaxTime == 70

\* Most seconds between the moment the broadcaster's thread can run and the
\* moment it does.
MaxJitter == 2

\* Chunks of diagnostics the pipe of a helper's stderr holds before a write
\* to it blocks.
PipeChunks == 1

\* ------------------------------------------------------------------- text

\* Python's None (a missing element, a missing query parameter).
None == << "<None>" >>

\* The printable ASCII characters, code 32 to 126, in order (code 96, the
\* backquote, cannot be written in a string here and is spelled "<bq>").
Ascii ==
  << " ", "!", "\"", "#", "$", "%", "&", "'", "(", ")", "*", "+", ",", "-", ".", "/",
     "0", "1", "2", "3", "4", "5", "6", "7", "8", "9", ":", ";", "<", "=", ">", "?",
     "@", "A", "B", "C", "D", "E", "F", "G", "H", "I", "J", "K", "L", "M", "N", "O",
     "P", "Q", "R", "S", "T", "U", "V", "W", "X", "Y", "Z", "[", "\\", "]", "^", "_",
     "<bq>", "a", "b", "c", "d", "e", "f", "g", "h", "i", "j", "k", "l", "m", "n", "o",
     "p", "q", "r", "s", "t", "u", "v", "w", "x", "y", "z", "{", "|", "}", "~" >>

\* chr(code) for one decoded byte; bytes that are not ASCII decode to U+FFFD
\* (errors='replace'), control characters are kept as one opaque character.
Chr(code) ==
  IF code >= 32 /\ code <= 126 THEN Ascii[code - 31]
  ELSE IF code >= 128 THEN "<U+FFFD>"
  ELSE IF code = 10 THEN "\n"
  ELSE IF code = 9 THEN "\t"
  ELSE IF code = 13 THEN "\r"
  ELSE "<ctl>"

\* The code of each printable ASCII character.
AsciiCode ==
  [c \in { Ascii[i] : i \in 1..Len(Ascii) } |->
     31 + (CHOOSE i \in 1..Len(Ascii) : Ascii[i] = c)]

\* ord(c) of a printable ASCII character, 0 for any other.
Ord(c) == IF c \in DOMAIN AsciiCode THEN AsciiCode[c] ELSE 0

\* str.lower() on one character.
LowerChar(c) ==
  LET o == Ord(c) IN IF o >= 65 /\ o <= 90 THEN Chr(o + 32) ELSE c

\* str.lower()
Lower(s) == [i \in 1..Len(s) |-> LowerChar(s[i])]

\* The characters str.strip() removes.
Whitespace == {" ", "\t", "\n", "\r"}

RECURSIVE LStrip(_)
LStrip(s) ==
  IF s # << >> /\ Head(s) \in Whitespace THEN LStrip(Tail(s)) ELSE s

RECURSIVE RStrip(_)
RStrip(s) ==
  IF s # << >> /\ s[Len(s)] \in Whitespace
  THEN RStrip(SubSeq(s, 1, Len(s) - 1))
  ELSE s

\* str.strip()
Strip(s) == RStrip(LStrip(s))

\* `sub in s` for strings.
Contains(s, sub) ==
  \E i \in 1..(Len(s) - Len(sub) + 1) : SubSeq(s, i, i + Len(sub) - 1) = sub

\* Position of the first c in s, 0 when there is none (str.find + 1).
Find(s, c) ==
  IF \E i \in 1..Len(s) : s[i] = c
  THEN CHOOSE i \in 1..Len(s) : s[i] = c /\ \A j \in 1..(i - 1) : s[j] # c
  ELSE 0

\* Value of a hexadecimal digit, -1 for any other character.
HexVal(c) ==
  LET o == Ord(c) IN
  IF o >= 48 /\ o <= 57 THEN o - 48
  ELSE IF o >= 65 /\ o <= 70 THEN o - 55
  ELSE IF o >= 97 /\ o <= 102 THEN o - 87
  ELSE -1

\* urllib.parse.unquote: every %XX with two hex digits becomes the byte XX, a
\* '%' not followed by two hex digits stays as it is.
RECURSIVE unquote(_)
unquote(s) ==
  IF s = << >> THEN << >>
  ELSE IF Head(s) = "%" /\ Len(s) >= 3 /\ HexVal(s[2]) >= 0 /\ HexVal(s[3]) >= 0
  THEN << Chr(16 * HexVal(s[2]) + HexVal(s[3])) >> \o unquote(SubSeq(s, 4, Len(s)))
  ELSE << Head(s) >> \o unquote(Tail(s))

\* str(n) for n >= 0.
RECURSIVE Str(_)
Str(n) == IF n < 10 THEN << Chr(48 + n) >> ELSE Str(n \div 10) \o << Chr(48 + (n % 10)) >>

\* --------------------------------------------------------- configuration

\* HOST_IP and SERVER_PORT (environment), here "h" and "1".
HOST_IP == << "h" >>
SERVER_PORT == << "1" >>

\* f'http://{HOST_IP}:{SERVER_PORT}'
base_url == << "h", "t", "t", "p", ":", "/", "/" >> \o HOST_IP \o << ":" >> \o SERVER_PORT

\* The literal '/stream?url=' of hdhr_lineup.
StreamPrefix == << "/", "s", "t", "r", "e", "a", "m", "?", "u", "r", "l", "=" >>

\* ------------------------------------------------------- channel catalog

\* What os.path.isfile and ET.parse find: the document, no file, or a file
\* that is not well-formed XML.
Parsed == "parsed"
NoFile == "no file"
BadXml == "parse error"

\* Texts of a <youtube-url> element: None is a channel without the element,
\* << >> an empty element.
UrlTexts ==
  { None,
    << >>,
    << " " >>,
    << "a" >>,
    << " ", "a", "\n" >>,
    << "a", "?", "v", "=", "1" >>,
    << "a", "&", "b" >>,
    << "a", "+", "b" >>,
    << "a", "#", "b" >>,
    << "a", "%", "2", "6" >> }

\* The <channel> elements a document is made of.
ChannelElements ==
  { [youtube_url |-> u, channel_number |-> None, tvg_logo |-> None] : u \in UrlTexts }
  \cup { [youtube_url |-> << "a" >>, channel_number |-> << "7" >>, tvg_logo |-> << "l" >>],
         [youtube_url |-> << " " >>, channel_number |-> << "7" >>, tvg_logo |-> << "l" >>] }

\* youtubelinks.xml: documents of at most MaxCatalog channels, and the two
\* unreadable ones.
Catalogs ==
  { [file |-> Parsed, root |-> r] :
      r \in UNION { [1..n -> ChannelElements] : n \in 0..MaxCatalog } }
  \cup { [file |-> f, root |-> << >>] : f \in {NoFile, BadXml} }

\* ElementText without the strip(): a blank element is kept as it is.
ElementTextUnstripped(text, default) == IF text = None THEN default ELSE text

\* (ch.find(tag).text or '').strip() if ch.find(tag) is not None else default
ElementText(text, default) == IF text = None THEN default ELSE Strip(text)

\* The loop of get_channels_from_xml from the idx-th channel element on.
RECURSIVE ChannelsFrom(_, _)
ChannelsFrom(root, idx) ==
  IF idx > Len(root) THEN << >>
  ELSE
    LET ch == root[idx]
        channel_number == ElementText(ch.channel_number, Str(idx))
        tvg_logo == ElementText(ch.tvg_logo, << >>)
        youtube_url == ElementText(ch.youtube_url, << >>)
    IN  (IF youtube_url # << >>
         THEN << [channel_number |-> channel_number,
                  tvg_logo |-> tvg_logo,
                  youtube_url |-> youtube_url] >>
         ELSE << >>)
        \o ChannelsFrom(root, idx + 1)

get_channels_from_xml(xml) ==
  IF xml.file \in {NoFile, BadXml} THEN << >> ELSE ChannelsFrom(xml.root, 1)

\* One entry of the lineup: Station only for a channel with a logo.
LineupEntry(ch) ==
  LET url == base_url \o StreamPrefix \o ch.youtube_url IN
  IF ch.tvg_logo # << >>
  THEN [GuideNumber |-> ch.channel_number, URL |-> url, Station |-> ch.channel_number]
  ELSE [GuideNumber |-> ch.channel_number, URL |-> url]

\* The body of GET /lineup.json.
hdhr_lineup(xml) ==
  LET channels == get_channels_from_xml(xml) IN
  [i \in 1..Len(channels) |-> LineupEntry(channels[i])]

\* ------------------------------------------------- the HTTP layer's query

\* The query of a URL: what follows the first '?', up to a '#'.
QueryOf(u) ==
  LET q == Find(u, "?")
      rest == IF q = 0 THEN << >> ELSE SubSeq(u, q + 1, Len(u))
      h == Find(rest, "#")
  IN  IF h = 0 THEN rest ELSE SubSeq(rest, 1, h - 1)

\* '+' is a space in a query string.
PlusToSpace(s) == [i \in 1..Len(s) |-> IF s[i] = "+" THEN " " ELSE s[i]]

\* One name=value field of a query string, decoded.
QueryField(f) ==
  LET e == Find(f, "=")
      name == IF e = 0 THEN f ELSE SubSeq(f, 1, e - 1)
      value == IF e = 0 THEN << >> ELSE SubSeq(f, e + 1, Len(f))
  IN  [name |-> unquote(PlusToSpace(name)), value |-> unquote(PlusToSpace(value))]

\* parse_qsl(query, keep_blank_values=True): the fields between '&'.
RECURSIVE parse_qsl(_)
parse_qsl(q) ==
  LET a == Find(q, "&")
      first == IF a = 0 THEN q ELSE SubSeq(q, 1, a - 1)
      rest == IF a = 0 THEN << >> ELSE parse_qsl(SubSeq(q, a + 1, Len(q)))
  IN  (IF first = << >> THEN << >> ELSE << QueryField(first) >>) \o rest

\* request.args.get(name): the first value of that name, None without one.
ArgsGet(u, name) ==
  LET fields == parse_qsl(QueryOf(u))
      hits == { i \in 1..Len(fields) : fields[i].name = name }
  IN  IF hits = {} THEN None
      ELSE fields[CHOOSE i \in hits : \A j \in hits : i <= j].value

UrlKey == << "u", "r", "l" >>

\* unquote(None) raises TypeError.
TypeError == << "<TypeError>" >>

\* url = unquote(request.args.get('url'))
StreamUrl(arg) == IF arg = None THEN TypeError ELSE unquote(arg)

\* ------------------------------------------------------- /stream: inputs

\* Values of request.args.get('url'): no parameter, an empty one, a
\* video-hosting URL (recognised only after unquote and lower()) and a URL
\* of another site.
StreamArgs ==
  { None,
    << >>,
    << "Y", "o", "u", "T", "u", "%", "2", "E", "b", "e", "/", "a" >>,
    << "t", "v", "/", "a" >> }

YoutubeCom == << "y", "o", "u", "t", "u", "b", "e", ".", "c", "o", "m" >>
YoutuBe == << "y", "o", "u", "t", "u", ".", "b", "e" >>

\* 'youtube.com' in url.lower() or 'youtu.be' in url.lower()
IsVideoHost(url) == Contains(Lower(url), YoutubeCom) \/ Contains(Lower(url), YoutuBe)

\* What json.loads makes of a probe's stdout: not JSON, or an object with or
\* without a 'streams' key holding the named variants.
BadJson == [json |-> "bad", has_streams |-> FALSE, streams |-> {}]
NoKey == [json |-> "ok", has_streams |-> FALSE, streams |-> {}]
Variants(v) == [json |-> "ok", has_streams |-> TRUE, streams |-> v]
NoInfo == [json |-> "n/a", has_streams |-> FALSE, streams |-> {}]

\* How a run of `streamlink --json` can end: exit 0 with any of the outputs,
\* exit 1 (stdout is then empty or an error object), or Popen raises.
ProbeOutcomes ==
  { [outcome |-> "exit0", info |-> i] :
      i \in {BadJson, NoKey, Variants({}), Variants({"worst"}),
             Variants({"best", "worst"})} }
  \cup { [outcome |-> "exit1", info |-> i] : i \in {BadJson, NoKey} }
  \cup { [outcome |-> "oserror", info |-> NoInfo] }

\* What yt-dlp --get-url prints: a URL and a newline.
FallbackTexts == { << "c", "d", "n", "/", "x", "\n" >> }

FallbackOutcomes ==
  { [outcome |-> "exit1", text |-> << >>] }
  \cup { [outcome |-> "exit0", text |-> t] : t \in FallbackTexts }
  \cup { [outcome |-> "oserror", text |-> << >>] }

\* One subprocess.Popen call: the tool, the URL argument, how it ended and
\* what it printed.
PopenCall(cmd, url, outcome, info, text) ==
  [cmd |-> cmd, url |-> url, outcome |-> outcome, info |-> info, text |-> text]

\* ---------------------------------------------------- /stream: responses

NoResponse == [status |-> 0, kind |-> "none", error |-> "", details |-> ""]

\* jsonify({'error': error[, 'details': details]}), status
JsonError(status, error, details) ==
  [status |-> status, kind |-> "json", error |-> error, details |-> details]

\* Flask's answer to an exception that leaves the view function.
InternalServerError == [status |-> 500, kind |-> "html", error |-> "", details |-> ""]

\* Response(generate(), content_type='video/mp2t')
StreamResponse == [status |-> 200, kind |-> "video/mp2t", error |-> "", details |-> ""]

UrlRequired == JsonError(400, "URL parameter is required", "")
ProbeError == JsonError(500, "Failed to retrieve stream info", "info_error")
NoValidStreams == JsonError(404, "No valid streams found", "")

\* except Exception as e: jsonify({'error': str(e)}), 500
Caught(e) == JsonError(500, e, "")

\* -------------------------------------------------------- device identity

\* The hexadecimal digits of format(..., 'X'), by value.
HexDigits ==
  << "0", "1", "2", "3", "4", "5", "6", "7", "8", "9", "A", "B", "C", "D", "E", "F" >>

\* Integers wider than 32 bits are written as their hexadecimal digits, most
\* significant first, each 0..15: uuid.getnode() is a 48-bit integer.
NodeDigits == 1..12

\* Values of uuid.getnode(): 0, 1, 2^28 - 1, 2^28, 2^32 - 1, 2^32,
\* 2^32 + 2^28 - 1, 0xABCDEF012345 and 2^48 - 1.
Nodes ==
  { << 0, 0, 0, 0, 0, 0, 0, 0, 0, 0, 0, 0 >>,
    << 0, 0, 0, 0, 0, 0, 0, 0, 0, 0, 0, 1 >>,
    << 0, 0, 0, 0, 0, 15, 15, 15, 15, 15, 15, 15 >>,
    << 0, 0, 0, 0, 1, 0, 0, 0, 0, 0, 0, 0 >>,
    << 0, 0, 0, 0, 15, 15, 15, 15, 15, 15, 15, 15 >>,
    << 0, 0, 0, 1, 0, 0, 0, 0, 0, 0, 0, 0 >>,
    << 0, 0, 0, 1, 0, 15, 15, 15, 15, 15, 15, 15 >>,
    << 10, 11, 12, 13, 14, 15, 0, 1, 2, 3, 4, 5 >>,
    << 15, 15, 15, 15, 15, 15, 15, 15, 15, 15, 15, 15 >> }

\* 0xFFFFFFFF, on the digits of a node.
Mask32 == [i \in NodeDigits |-> IF i <= 4 THEN 0 ELSE 15]

\* a & b on one hexadecimal digit, b being 0 or 15.
DigitAnd(a, b) == IF b = 15 THEN a ELSE 0

\* mac & 0xFFFFFFFF
BitAnd(mac, mask) == [i \in NodeDigits |-> DigitAnd(mac[i], mask[i])]

\* The digits of a number without its leading zeros (one digit for 0).
RECURSIVE Significant(_)
Significant(n) ==
  IF Len(n) > 1 /\ Head(n) = 0 THEN Significant(Tail(n)) ELSE n

\* format(n, '08X'): upper-case hexadecimal, padded with zeros on the left
\* to the width, never cut.
Format0X(n, width) ==
  LET digits == Significant(n)
      pad == IF Len(digits) < width THEN width - Len(digits) ELSE 0
  IN  [i \in 1..pad |-> "0"] \o [i \in 1..Len(digits) |-> HexDigits[digits[i] + 1]]

\* The width of the '08X' format.
IdWidth == 8

_generate_device_id(mac) == Format0X(BitAnd(mac, Mask32), IdWidth)

\* Values of the environment variable HDHR_DEVICE_ID: unset, empty, eight
\* hexadecimal digits, and a name that is not.
Overrides ==
  { None,
    << >>,
    << "1", "2", "3", "4", "A", "B", "C", "D" >>,
    << "a", "b", "c" >> }

\* The environment the process is started in.
Envs == [HDHR_DEVICE_ID : Overrides, node : Nodes]

\* DEVICE_ID = HDHR_DEVICE_ID or _generate_device_id()
DeviceId(env) ==
  IF env.HDHR_DEVICE_ID \in {None, << >>}
  THEN _generate_device_id(env.node)
  ELSE env.HDHR_DEVICE_ID

\* The defaults of HDHR_FRIENDLY_NAME, HDHR_MANUFACTURER, HDHR_MODEL,
\* HDHR_FIRMWARE, HDHR_FIRMWARE_VERSION and HDHR_TUNER_COUNT.
HDHR_FRIENDLY_NAME == "youtube-to-m3u"
HDHR_MANUFACTURER == "Silicondust"
HDHR_MODEL == "HDTC-2US"
HDHR_FIRMWARE == "hdhomerun3_atsc"
HDHR_FIRMWARE_VERSION == "20200101"
HDHR_TUNER_COUNT == 2

\* The body of GET /discover.json.
hdhr_discover(device_id) ==
  [FriendlyName |-> HDHR_FRIENDLY_NAME,
   Manufacturer |-> HDHR_MANUFACTURER,
   ModelNumber |-> HDHR_MODEL,
   FirmwareName |-> HDHR_FIRMWARE,
   FirmwareVersion |-> HDHR_FIRMWARE_VERSION,
   DeviceID |-> device_id,
   DeviceAuth |-> device_id,
   BaseURL |-> base_url,
   LineupURL |-> base_url \o << "/", "l", "i", "n", "e", "u", "p", ".", "j", "s", "o", "n" >>,
   TunerCount |-> HDHR_TUNER_COUNT]

\* The body of GET /device.xml: the elements that are not literal text.
hdhr_device_xml(device_id) ==
  [URLBase |-> base_url,
   deviceType |-> "urn:schemas-upnp-org:device:MediaServer:1",
   friendlyName |-> HDHR_FRIENDLY_NAME,
   manufacturer |-> HDHR_MANUFACTURER,
   modelName |-> HDHR_MODEL,
   modelNumber |-> HDHR_MODEL,
   UDN |-> << "u", "u", "i", "d", ":" >> \o device_id]

\* The body of /lineup.post.
hdhr_lineup_post == ""

\* -------------------------------------------------------------- discovery

SSDP_DEVICE_TYPE ==
  << "u", "r", "n", ":", "s", "c", "h", "e", "m", "a", "s", "-", "u", "p", "n", "p", "-",
     "o", "r", "g", ":", "d", "e", "v", "i", "c", "e", ":", "M", "e", "d", "i", "a", "S",
     "e", "r", "v", "e", "r", ":", "1" >>

\* b'M-SEARCH'
M_SEARCH == << "M", "-", "S", "E", "A", "R", "C", "H" >>

\* f'http://{host_ip}:{port}/device.xml'
Location(host_ip, port) ==
  << "h", "t", "t", "p", ":", "/", "/" >> \o host_ip \o << ":" >> \o port
    \o << "/", "d", "e", "v", "i", "c", "e", ".", "x", "m", "l" >>

\* f'uuid:{DEVICE_ID}::{SSDP_DEVICE_TYPE}'
Usn(device_id) ==
  << "u", "u", "i", "d", ":" >> \o device_id \o << ":", ":" >> \o SSDP_DEVICE_TYPE

\* The datagram ssdp_response sends to addr: its headers that are not
\* literal text.
SearchResponse(addr, host_ip, port, device_id) ==
  [to |-> addr, LOCATION |-> Location(host_ip, port), ST |-> SSDP_DEVICE_TYPE,
   USN |-> Usn(device_id)]

\* The size of the buffer of sock.recvfrom.
BufSize == 1024

\* sock.recvfrom(bufsize) on a datagram: its first bufsize bytes, the rest is
\* discarded.
recvfrom(datagram, bufsize) ==
  IF Len(datagram) <= bufsize THEN datagram ELSE SubSeq(datagram, 1, bufsize)

\* b'M-SEARCH' in data and SSDP_DEVICE_TYPE.encode('utf-8') in data
IsSearch(data) == Contains(data, M_SEARCH) /\ Contains(data, SSDP_DEVICE_TYPE)

\* n bytes that are part of no marker.
Filler(n) == [i \in 1..n |-> "x"]

StHeader == << "\r", "\n", "S", "T", ":", " " >>

\* Datagrams that arrive on the multicast group: a query of 1055 bytes whose
\* device type lies beyond the first 1024, a query for all devices, a query
\* for the device type in lower case, an announcement of such a device (no
\* query marker), an empty datagram, a query of 1000 bytes for this device
\* type and one of 55 bytes.
Datagrams ==
  << M_SEARCH \o Filler(1000) \o StHeader \o SSDP_DEVICE_TYPE,
     M_SEARCH \o StHeader \o << "s", "s", "d", "p", ":", "a", "l", "l" >>,
     M_SEARCH \o StHeader \o Lower(SSDP_DEVICE_TYPE),
     << "N", "O", "T", "I", "F", "Y" >> \o StHeader \o SSDP_DEVICE_TYPE,
     << >>,
     M_SEARCH \o Filler(945) \o StHeader \o SSDP_DEVICE_TYPE,
     M_SEARCH \o StHeader \o SSDP_DEVICE_TYPE >>

\* For each datagram, whether the listener takes what it reads of it for a
\* query.
Answered == [k \in 1..Len(Datagrams) |-> IsSearch(recvfrom(Datagrams[k], BufSize))]

\* The senders of datagrams.
Addrs == {"10.0.0.2", "10.0.0.3"}

\* time.sleep(30)
SleepSeconds == 30

\* ------------------------------------------------------------------ state

Sessions == 1..NumSessions

VARIABLES
  catalog,        \* youtubelinks.xml on disk
  lineup,         \* the last body GET /lineup.json returned
  tuned,          \* the last lineup entry a client requested, and the url /stream saw
  pc,             \* where each request's thread is
  arg,            \* request.args.get('url') of each request
  url,            \* the local variable url of stream()
  stream_info,    \* the local variable stream_info of stream()
  popen,          \* the subprocess.Popen calls of each request, in order
  resp,           \* the response each request returned
  resp_end,       \* how the response body ended: "open", "complete", "aborted"
  proc,           \* the helper process: "none", "running", "exited"
  wopen,          \* whether the helper still holds its stdout open
  written,        \* chunks the helper has written to its stdout
  errbuf,         \* chunks of diagnostics in the pipe of the helper's stderr
  blocked,        \* the helper is blocked in a write to its stderr
  nread,          \* chunks the relay loop has read
  client,         \* the client's connection: "connected", "closed"
  ops,            \* the calls made on the helper's Popen object, in order
  stdout_closed,  \* process.stdout.close() was called
  stderr_closed,  \* process.stderr.close() was called
  env,            \* the environment: HDHR_DEVICE_ID and what uuid.getnode() returns
  DEVICE_ID,      \* the module global DEVICE_ID
  served,         \* the last body each endpoint of the lineup API returned
  ssdp,           \* where the listener and the broadcaster are
  heard,          \* the last datagram the listener received, and its sender
  replies,        \* the datagrams the listener sent in answer to it
  now,            \* seconds since the process started
  nsent,          \* announcements the broadcaster has sent
  last            \* when it sent the last one

lineupVars == << catalog, lineup, tuned >>
requestVars == << arg, url, stream_info, popen, resp >>
helperVars == << proc, wopen, written, errbuf, blocked >>
handleVars == << ops, stdout_closed, stderr_closed >>
streamVars == << pc, requestVars, resp_end, helperVars, nread, client, handleVars >>
deviceVars == << env, DEVICE_ID, served >>
ssdpVars == << ssdp, heard, replies, now, nsent, last >>
\* What a /stream request, its helper and its client leave alone.
apiVars == << lineupVars, deviceVars, ssdpVars >>
vars == << lineupVars, streamVars, deviceVars, ssdpVars >>

\* No /stream request has arrived.
StreamIdle ==
  /\ pc = [s \in Sessions |-> "idle"]
  /\ arg = [s \in Sessions |-> None]
  /\ url = [s \in Sessions |-> << >>]
  /\ stream_info = [s \in Sessions |-> NoInfo]
  /\ popen = [s \in Sessions |-> << >>]
  /\ resp = [s \in Sessions |-> NoResponse]
  /\ resp_end = [s \in Sessions |-> "open"]
  /\ proc = [s \in Sessions |-> "none"]
  /\ wopen = [s \in Sessions |-> FALSE]
  /\ written = [s \in Sessions |-> 0]
  /\ errbuf = [s \in Sessions |-> 0]
  /\ blocked = [s \in Sessions |-> FALSE]
  /\ nread = [s \in Sessions |-> 0]
  /\ client = [s \in Sessions |-> "connected"]
  /\ ops = [s \in Sessions |-> << >>]
  /\ stdout_closed = [s \in Sessions |-> FALSE]
  /\ stderr_closed = [s \in Sessions |-> FALSE]

\* GET /discover.json, /device.xml, /lineup_status.json and /lineup.post.
Endpoints == {"/discover.json", "/device.xml", "/lineup_status.json", "/lineup.post"}

\* The process starts in environment e: DEVICE_ID is set at import, no
\* request has been served.
DeviceStart(e) ==
  /\ env = e
  /\ DEVICE_ID = DeviceId(e)
  /\ served = [p \in Endpoints |-> << >>]

\* An environment without HDHR_DEVICE_ID.
DefaultEnv ==
  [HDHR_DEVICE_ID |-> None, node |-> << 10, 11, 12, 13, 14, 15, 0, 1, 2, 3, 4, 5 >>]

\* ssdp_listener and ssdp_broadcaster.
Loops == {"listener", "broadcaster"}

\* No datagram has arrived.
NoDatagram == [from |-> "", datagram |-> 0]

\* start_ssdp has been called: neither thread has run yet.
SsdpStart ==
  /\ ssdp = [l \in Loops |-> "start"]
  /\ heard = NoDatagram
  /\ replies = << >>
  /\ now = 0
  /\ nsent = 0
  /\ last = 0

\* ------------------------------------------------------ GET /lineup.json

GetLineup ==
  /\ lineup' = [served |-> TRUE, body |-> hdhr_lineup(catalog)]
  /\ UNCHANGED << catalog, tuned, streamVars, deviceVars, ssdpVars >>

\* A client requests the URL of the k-th entry of the lineup it was served;
\* the HTTP layer extracts the url parameter and stream() decodes it.
TuneChannel ==
  /\ lineup.served
  /\ \E k \in 1..Len(lineup.body) :
       tuned' = [requested |-> TRUE, entry |-> k,
                 url |-> StreamUrl(ArgsGet(lineup.body[k].URL, UrlKey))]
  /\ UNCHANGED << catalog, lineup, streamVars, deviceVars, ssdpVars >>

LineupNext == GetLineup \/ TuneChannel

\* Any document may be on disk; no /stream request is in progress.
LineupStart ==
  /\ catalog \in Catalogs
  /\ lineup = [served |-> FALSE, body |-> << >>]
  /\ tuned = [requested |-> FALSE, entry |-> 0, url |-> << >>]
  /\ StreamIdle
  /\ DeviceStart(DefaultEnv)
  /\ SsdpStart

LineupSpec == LineupStart /\ [][LineupNext]_vars

\* ------------------------------------------------------------ GET /stream

\* The exit code is never looked at.
ExitCodeIgnored(outcome) == FALSE

\* Lines 445 and 460: `returncode != 0`.
ExitedNonZero(outcome) == outcome = "exit1"

\* Line 454: 'streams' not in stream_info or not stream_info['streams']
NoStreams(info) == ~info.has_streams \/ info.streams = {}

\* Line 464: url = yt_url.decode(...).strip()
FallbackUrlKept(old, yt_url) == old

FallbackUrl(old, yt_url) == Strip(yt_url)

\* The failure is not answered: the handler starts over with the first probe.
RetryInsteadOfRespond(s, r) ==
  /\ resp' = resp
  /\ pc' = [pc EXCEPT ![s] = "probe1"]

\* The request ends with response r; no helper was started.
Respond(s, r) ==
  /\ resp' = [resp EXCEPT ![s] = r]
  /\ pc' = [pc EXCEPT ![s] = "done"]

\* Lines 435-437: the url parameter is decoded before the try block, so the
\* TypeError of unquote(None) leaves the view function.
StreamRequest(s) ==
  /\ pc[s] = "idle"
  /\ \E a \in StreamArgs :
       LET u == StreamUrl(a) IN
       /\ arg' = [arg EXCEPT ![s] = a]
       /\ IF u = TypeError
          THEN Respond(s, InternalServerError) /\ UNCHANGED url
          ELSE IF u = << >>
          THEN Respond(s, UrlRequired) /\ UNCHANGED url
          ELSE /\ url' = [url EXCEPT ![s] = u]
               /\ pc' = [pc EXCEPT ![s] = "probe1"]
               /\ UNCHANGED resp
  /\ UNCHANGED << apiVars, stream_info, popen, resp_end, helperVars, nread, client,
                  handleVars >>

\* Lines 441-455: the first probe, its exit code, its JSON, and the choice
\* between the fallback and the selection.
Probe1(s) ==
  /\ pc[s] = "probe1"
  /\ \E o \in ProbeOutcomes :
       /\ popen' = [popen EXCEPT
                      ![s] = Append(@, PopenCall("probe", url[s], o.outcome, o.info, << >>))]
       /\ IF o.outcome = "oserror"
          THEN Respond(s, Caught("OSError")) /\ UNCHANGED stream_info
          ELSE IF ExitedNonZero(o.outcome)
          THEN Respond(s, ProbeError) /\ UNCHANGED stream_info
          ELSE IF o.info.json = "bad"
          THEN Respond(s, Caught("JSONDecodeError")) /\ UNCHANGED stream_info
          ELSE /\ stream_info' = [stream_info EXCEPT ![s] = o.info]
               /\ pc' = [pc EXCEPT
                           ![s] = IF NoStreams(o.info) /\ IsVideoHost(url[s])
                                  THEN "fallback" ELSE "select"]
               /\ UNCHANGED resp
  /\ UNCHANGED << apiVars, arg, url, resp_end, helperVars, nread, client, handleVars >>

\* Lines 456-464: yt-dlp --get-url on the source URL.
Fallback(s) ==
  /\ pc[s] = "fallback"
  /\ \E o \in FallbackOutcomes :
       /\ popen' = [popen EXCEPT
                      ![s] = Append(@, PopenCall("yt-dlp", url[s], o.outcome, NoInfo, o.text))]
       /\ IF o.outcome = "oserror"
          THEN Respond(s, Caught("OSError")) /\ UNCHANGED url
          ELSE IF ExitedNonZero(o.outcome)
          THEN Respond(s, NoValidStreams) /\ UNCHANGED url
          ELSE /\ url' = [url EXCEPT ![s] = FallbackUrl(@, o.text)]
               /\ pc' = [pc EXCEPT ![s] = "probe2"]
               /\ UNCHANGED resp
  /\ UNCHANGED << apiVars, arg, stream_info, resp_end, helperVars, nread, client,
                  handleVars >>

\* Lines 465-468: the second probe, on the fallback URL; its exit code is
\* not looked at.
Probe2(s) ==
  /\ pc[s] = "probe2"
  /\ \E o \in ProbeOutcomes :
       /\ popen' = [popen EXCEPT
                      ![s] = Append(@, PopenCall("probe", url[s], o.outcome, o.info, << >>))]
       /\ IF o.outcome = "oserror"
          THEN Respond(s, Caught("OSError")) /\ UNCHANGED stream_info
          ELSE IF o.info.json = "bad"
          THEN Respond(s, Caught("JSONDecodeError")) /\ UNCHANGED stream_info
          ELSE /\ stream_info' = [stream_info EXCEPT ![s] = o.info]
               /\ pc' = [pc EXCEPT ![s] = "select"]
               /\ UNCHANGED resp
  /\ UNCHANGED << apiVars, arg, url, resp_end, helperVars, nread, client, handleVars >>

\* Any variant will do: the helper is started as soon as there is a streams
\* object, whether or not it names best.
SelectAnyVariant(s) ==
  /\ pc[s] = "select"
  /\ IF ~stream_info[s].has_streams
     THEN Respond(s, Caught("'streams'"))
     ELSE pc' = [pc EXCEPT ![s] = "spawn"] /\ UNCHANGED resp
  /\ UNCHANGED << apiVars, arg, url, stream_info, popen, resp_end, helperVars, nread,
                  client, handleVars >>

\* Lines 470-472: stream_info['streams'].get('best')
Select(s) ==
  /\ pc[s] = "select"
  /\ IF ~stream_info[s].has_streams
     THEN Respond(s, Caught("'streams'"))
     ELSE IF "best" \notin stream_info[s].streams
     THEN Respond(s, NoValidStreams)
     ELSE pc' = [pc EXCEPT ![s] = "spawn"] /\ UNCHANGED resp
  /\ UNCHANGED << apiVars, arg, url, stream_info, popen, resp_end, helperVars, nread,
                  client, handleVars >>

\* Lines 475-526: the helper is started on url and the streaming response is
\* returned; the server then runs the generator up to its first read.
SpawnHelper(s) ==
  /\ pc[s] = "spawn"
  /\ \/ /\ popen' = [popen EXCEPT
                       ![s] = Append(@, PopenCall("helper", url[s], "oserror", NoInfo, << >>))]
        /\ Respond(s, Caught("OSError"))
        /\ UNCHANGED << helperVars >>
     \/ /\ popen' = [popen EXCEPT
                       ![s] = Append(@, PopenCall("helper", url[s], "running", NoInfo, << >>))]
        /\ resp' = [resp EXCEPT ![s] = StreamResponse]
        /\ pc' = [pc EXCEPT ![s] = "read"]
        /\ proc' = [proc EXCEPT ![s] = "running"]
        /\ wopen' = [wopen EXCEPT ![s] = TRUE]
        /\ UNCHANGED << written, errbuf, blocked >>
  /\ UNCHANGED << apiVars, arg, url, stream_info, resp_end, nread, client, handleVars >>

\* ------------------------------------------- the relay loop, generate()

\* The handles of every session's helper are closed, as if `process` were
\* one variable of the module.
CloseEveryHelper(s, calls) ==
  /\ ops' = [t \in Sessions |-> ops[t] \o calls \o << "stdout.close", "stderr.close" >>]
  /\ stdout_closed' = [t \in Sessions |-> TRUE]
  /\ stderr_closed' = [t \in Sessions |-> TRUE]

\* process.stdout.close(); process.stderr.close()
CloseHandles(s, calls) ==
  /\ ops' = [ops EXCEPT ![s] = @ \o calls \o << "stdout.close", "stderr.close" >>]
  /\ stdout_closed' = [stdout_closed EXCEPT ![s] = TRUE]
  /\ stderr_closed' = [stderr_closed EXCEPT ![s] = TRUE]

\* Line 491 returns a chunk the helper has written; line 494 yields it and
\* the server starts writing it to the client.
GenRead(s) ==
  /\ pc[s] = "read"
  /\ nread[s] < written[s]
  /\ nread' = [nread EXCEPT ![s] = @ + 1]
  /\ pc' = [pc EXCEPT ![s] = "write"]
  /\ UNCHANGED << apiVars, requestVars, resp_end, helperVars, client, handleVars >>

\* On EOF the session starts a new helper instead of ending.
GenEOFRestarts(s) ==
  /\ pc[s] = "read"
  /\ nread[s] = written[s]
  /\ ~wopen[s]
  /\ pc' = [pc EXCEPT ![s] = "spawn"]
  /\ UNCHANGED << apiVars, requestVars, resp_end, helperVars, nread, client, handleVars >>

\* Lines 491-493: read returns b'' once the helper's end of the pipe is
\* closed and drained; the loop breaks, the generator returns and the server
\* ends the response.
GenEOF(s) ==
  /\ pc[s] = "read"
  /\ nread[s] = written[s]
  /\ ~wopen[s]
  /\ resp_end' = [resp_end EXCEPT ![s] = "complete"]
  /\ pc' = [pc EXCEPT ![s] = "on_close"]
  /\ UNCHANGED << apiVars, requestVars, helperVars, nread, client, handleVars >>

\* Lines 505-509: read raises; the handler terminates the helper and closes
\* the handles, and the generator returns as after EOF.
GenReadError(s) ==
  /\ pc[s] = "read"
  /\ CloseHandles(s, << "terminate" >>)
  /\ resp_end' = [resp_end EXCEPT ![s] = "complete"]
  /\ pc' = [pc EXCEPT ![s] = "on_close"]
  /\ UNCHANGED << apiVars, requestVars, helperVars, nread, client >>

\* The server has written the chunk to a connected client and asks the
\* generator for the next one.
ServerWrite(s) ==
  /\ pc[s] = "write"
  /\ client[s] = "connected"
  /\ pc' = [pc EXCEPT ![s] = "read"]
  /\ UNCHANGED << apiVars, requestVars, resp_end, helperVars, nread, client, handleVars >>

\* Lines 495-499: the write to a closed connection fails, the server closes
\* the generator, GeneratorExit is raised at the yield; the handler sends
\* terminate and starts to wait.
ClientGone(s) ==
  /\ pc[s] = "write"
  /\ client[s] = "closed"
  /\ resp_end' = [resp_end EXCEPT ![s] = "aborted"]
  /\ ops' = [ops EXCEPT ![s] = @ \o << "terminate", "wait" >>]
  /\ pc' = [pc EXCEPT ![s] = "gx_wait"]
  /\ UNCHANGED << apiVars, requestVars, helperVars, nread, client, stdout_closed,
                  stderr_closed >>

\* process.wait(timeout=5) raises TimeoutExpired while the helper runs.
WaitNeverTimesOut(s) == FALSE

WaitTimesOut(s) == proc[s] = "running"

\* Lines 499-504 and 519-524: wait returns because the helper has exited;
\* the finally clause closes the handles.
WaitReturns(s, at, next) ==
  /\ pc[s] = at
  /\ proc[s] = "exited"
  /\ CloseHandles(s, << >>)
  /\ pc' = [pc EXCEPT ![s] = next]
  /\ UNCHANGED << apiVars, requestVars, resp_end, helperVars, nread, client >>

\* Lines 500-504 and 520-524: the wait times out, kill is sent, the finally
\* clause closes the handles.
WaitExpires(s, at, next) ==
  /\ pc[s] = at
  /\ WaitTimesOut(s)
  /\ CloseHandles(s, << "TimeoutExpired", "kill" >>)
  /\ pc' = [pc EXCEPT ![s] = next]
  /\ UNCHANGED << apiVars, requestVars, resp_end, helperVars, nread, client >>

GenExitWaitReturns(s) == WaitReturns(s, "gx_wait", "on_close")

GenExitWaitExpires(s) == WaitExpires(s, "gx_wait", "on_close")

\* ------------------------------------------ response.call_on_close: cleanup

\* Lines 515-519: nothing is done for a helper that has exited; one that
\* runs is sent terminate and waited for.
Cleanup(s) ==
  /\ pc[s] = "on_close"
  /\ IF proc[s] = "running"
     THEN /\ ops' = [ops EXCEPT ![s] = @ \o << "poll", "terminate", "wait" >>]
          /\ pc' = [pc EXCEPT ![s] = "cl_wait"]
     ELSE /\ ops' = [ops EXCEPT ![s] = @ \o << "poll" >>]
          /\ pc' = [pc EXCEPT ![s] = "done"]
  /\ UNCHANGED << apiVars, requestVars, resp_end, helperVars, nread, client,
                  stdout_closed, stderr_closed >>

CleanupWaitReturns(s) == WaitReturns(s, "cl_wait", "done")

CleanupWaitExpires(s) == WaitExpires(s, "cl_wait", "done")

\* ------------------------------------------------- helper, client, signals

\* The helper writes a chunk to its stdout (what it writes once the relay
\* loop has ended is never read, and is left out).
HelperWrite(s) ==
  /\ pc[s] \in {"read", "write"}
  /\ proc[s] = "running"
  /\ ~blocked[s]
  /\ wopen[s]
  /\ written[s] < MaxChunks
  /\ written' = [written EXCEPT ![s] = @ + 1]
  /\ UNCHANGED << apiVars, pc, requestVars, resp_end, proc, wopen, errbuf, blocked,
                  nread, client, handleVars >>

\* Line 484, stderr=subprocess.PIPE: the helper writes diagnostics to a pipe
\* of PipeChunks chunks. No line of the program reads process.stderr, so a
\* chunk written stays in the pipe, and a write to the full pipe blocks.
StderrWrite(s) ==
  IF errbuf[s] < PipeChunks
  THEN errbuf' = [errbuf EXCEPT ![s] = @ + 1] /\ UNCHANGED blocked
  ELSE blocked' = [blocked EXCEPT ![s] = TRUE] /\ UNCHANGED errbuf

\* The helper logs a chunk of diagnostics (as for its stdout, only while the
\* relay loop runs).
HelperLog(s) ==
  /\ pc[s] \in {"read", "write"}
  /\ proc[s] = "running"
  /\ ~blocked[s]
  /\ StderrWrite(s)
  /\ UNCHANGED << apiVars, pc, requestVars, resp_end, proc, wopen, written, nread,
                  client, handleVars >>

\* The helper closes its stdout and goes on running (as for its writes, only
\* while the relay loop runs).
HelperCloseStdout(s) ==
  /\ pc[s] \in {"read", "write"}
  /\ proc[s] = "running"
  /\ ~blocked[s]
  /\ wopen[s]
  /\ wopen' = [wopen EXCEPT ![s] = FALSE]
  /\ UNCHANGED << apiVars, pc, requestVars, resp_end, proc, written, errbuf, blocked,
                  nread, client, handleVars >>

\* process.terminate() / process.kill() was called.
Sent(s, signal) == \E i \in 1..Len(ops[s]) : ops[s][i] = signal

\* The helper exits, of its own or by a signal; blocked in a write, only by
\* a signal.
HelperExit(s) ==
  /\ proc[s] = "running"
  /\ blocked[s] => Sent(s, "terminate") \/ Sent(s, "kill")
  /\ proc' = [proc EXCEPT ![s] = "exited"]
  /\ wopen' = [wopen EXCEPT ![s] = FALSE]
  /\ blocked' = [blocked EXCEPT ![s] = FALSE]
  /\ UNCHANGED << apiVars, pc, requestVars, resp_end, written, errbuf, nread, client,
                  handleVars >>

\* A signal the helper cannot ignore is pending: SIGKILL (it may ignore
\* SIGTERM).
Doomed(s) == proc[s] = "running" /\ Sent(s, "kill")

HelperDies(s) == Doomed(s) /\ HelperExit(s)

\* The client closes its connection while the response is streamed.
ClientDisconnect(s) ==
  /\ pc[s] \in {"read", "write"}
  /\ client[s] = "connected"
  /\ client' = [client EXCEPT ![s] = "closed"]
  /\ UNCHANGED << apiVars, pc, requestVars, resp_end, helperVars, nread, handleVars >>

\* ----------------------------------------------- the stateless endpoints

\* The status of a device that scans once /lineup.post was called.
hdhr_lineup_status_scanning ==
  [ScanInProgress |-> IF served["/lineup.post"] # << >> THEN 1 ELSE 0,
   ScanPossible |-> 0, Source |-> "Cable", SourceList |-> << "Cable" >>]

\* The body of GET /lineup_status.json.
hdhr_lineup_status ==
  [ScanInProgress |-> 0, ScanPossible |-> 0, Source |-> "Cable", SourceList |-> << "Cable" >>]

\* The request is answered with body.
Serve(path, body) ==
  /\ served' = [served EXCEPT ![path] = << body >>]
  /\ UNCHANGED << env, DEVICE_ID, lineupVars, streamVars, ssdpVars >>

GetDiscover == Serve("/discover.json", hdhr_discover(DEVICE_ID))

GetDeviceXml == Serve("/device.xml", hdhr_device_xml(DEVICE_ID))

GetLineupStatus == Serve("/lineup_status.json", hdhr_lineup_status)

\* The scan trigger: accepted, nothing is done.
LineupPost == Serve("/lineup.post", hdhr_lineup_post)

\* ------------------------------------------------ the discovery threads

\* Both loops run in one thread.
OneThread(loop) == "ssdp"

\* start_ssdp starts one thread for each loop.
ThreadOf(loop) == loop

\* The function a thread runs returns: `except Exception` has logged the
\* error, the thread ends, and with it every loop it runs.
EndThread(loop) ==
  ssdp' = [l \in Loops |-> IF ThreadOf(l) = ThreadOf(loop) THEN "ended" ELSE ssdp[l]]

\* Lines 77-84: the socket is created, bound and joined to the group, or one
\* of these calls raises.
ListenerSetup ==
  /\ ssdp["listener"] = "start"
  /\ \/ ssdp' = [ssdp EXCEPT !["listener"] = "recv"]
     \/ EndThread("listener")
  /\ UNCHANGED << lineupVars, streamVars, deviceVars, heard, replies, now, nsent, last >>

\* Lines 86-89 and ssdp_response: a datagram arrives; if what was read of it
\* is a query, one response is sent to its sender, unless the socket call
\* raises, which ssdp_response logs. The loop goes on.
ListenerReceive ==
  /\ ssdp["listener"] = "recv"
  /\ \E k \in 1..Len(Datagrams), addr \in Addrs :
       /\ heard' = [from |-> addr, datagram |-> k]
       /\ IF Answered[k]
          THEN \/ replies' = << SearchResponse(addr, HOST_IP, SERVER_PORT, DEVICE_ID) >>
               \/ replies' = << >>
          ELSE replies' = << >>
  /\ UNCHANGED << lineupVars, streamVars, deviceVars, ssdp, now, nsent, last >>

\* Lines 86, 90-91: recvfrom raises.
ListenerError ==
  /\ ssdp["listener"] = "recv"
  /\ EndThread("listener")
  /\ UNCHANGED << lineupVars, streamVars, deviceVars, heard, replies, now, nsent, last >>

\* sendto has sent an announcement; the thread sleeps.
Announce ==
  /\ nsent' = nsent + 1
  /\ last' = now
  /\ ssdp' = [ssdp EXCEPT !["broadcaster"] = "sleep"]

\* Lines 108-113: the socket is created and the first announcement sent, or
\* one of the socket calls raises.
BroadcasterStart ==
  /\ ssdp["broadcaster"] = "start"
  /\ \/ Announce
     \/ EndThread("broadcaster") /\ UNCHANGED << nsent, last >>
  /\ UNCHANGED << lineupVars, streamVars, deviceVars, heard, replies, now >>

\* The sleep returns at once.
WakesAtOnce(sent_at) == sent_at

\* time.sleep(30) returns no sooner than 30 seconds after the sendto before
\* it.
WakeTime(sent_at) == sent_at + SleepSeconds

\* Lines 112-113, from the second round on: the sleep has returned and the
\* next announcement is sent, or sendto raises.
BroadcasterSend ==
  /\ ssdp["broadcaster"] = "sleep"
  /\ now >= WakeTime(last)
  /\ \/ Announce
     \/ EndThread("broadcaster") /\ UNCHANGED << nsent, last >>
  /\ UNCHANGED << lineupVars, streamVars, deviceVars, heard, replies, now >>

\* A second passes. The broadcaster's thread is scheduled within MaxJitter
\* seconds of its start and of the end of each sleep.
Tick ==
  /\ now < MaxTime
  /\ ssdp["broadcaster"] = "start" => now < MaxJitter
  /\ ssdp["broadcaster"] = "sleep" => now < WakeTime(last) + MaxJitter
  /\ now' = now + 1
  /\ UNCHANGED << lineupVars, streamVars, deviceVars, ssdp, heard, replies, nsent, last >>

\* ---------------------------------------------------------- specification

Init ==
  /\ catalog = [file |-> NoFile, root |-> << >>]
  /\ lineup = [served |-> FALSE, body |-> << >>]
  /\ tuned = [requested |-> FALSE, entry |-> 0, url |-> << >>]
  /\ StreamIdle
  /\ DeviceStart(DefaultEnv)
  /\ SsdpStart

\* One step of the request served by session s, of its helper or of its
\* client.
SessionStep(s) ==
  \/ StreamRequest(s)
  \/ Probe1(s)
  \/ Fallback(s)
  \/ Probe2(s)
  \/ Select(s)
  \/ SpawnHelper(s)
  \/ GenRead(s)
  \/ GenEOF(s)
  \/ GenReadError(s)
  \/ ServerWrite(s)
  \/ ClientGone(s)
  \/ GenExitWaitReturns(s)
  \/ GenExitWaitExpires(s)
  \/ Cleanup(s)
  \/ CleanupWaitReturns(s)
  \/ CleanupWaitExpires(s)
  \/ HelperWrite(s)
  \/ HelperLog(s)
  \/ HelperCloseStdout(s)
  \/ HelperExit(s)
  \/ ClientDisconnect(s)

Next == \E s \in Sessions : SessionStep(s)

Spec == Init /\ [][Next]_vars

\* The steps of a session's thread from the first read on: each is taken
\* once it can be (a read returns when there is data or EOF, a wait ends
\* when the helper exits or the timeout passes).
RelayStep(s) ==
  \/ GenRead(s)
  \/ GenEOF(s)
  \/ ServerWrite(s)
  \/ ClientGone(s)
  \/ GenExitWaitReturns(s)
  \/ GenExitWaitExpires(s)
  \/ Cleanup(s)
  \/ CleanupWaitReturns(s)
  \/ CleanupWaitExpires(s)

\* The thread of a streaming session keeps running, and a helper that was
\* sent SIGKILL dies. Nothing makes the helper write, close its stdout or
\* exit otherwise, the client disconnect, or the resolution tools return.
FairSpec ==
  /\ Spec
  /\ \A s \in Sessions : WF_vars(RelayStep(s)) /\ WF_vars(HelperDies(s))

\* One /stream request at a time: session 1 serves it, the others stay idle.
\* Sessions share no variable, so what holds of one request served alone is
\* what holds of it among others (the claim on concurrent sessions is checked
\* under Spec).
SoloNext == SessionStep(1)

SoloSpec == Init /\ [][SoloNext]_vars

SoloFairSpec == SoloSpec /\ WF_vars(RelayStep(1)) /\ WF_vars(HelperDies(1))

\* The discovery threads and the clock, with the lineup API answering a
\* status query now and then.
DiscoveryNext ==
  \/ ListenerSetup
  \/ ListenerReceive
  \/ ListenerError
  \/ BroadcasterStart
  \/ BroadcasterSend
  \/ Tick
  \/ GetLineupStatus

DiscoverySpec == Init /\ [][DiscoveryNext]_vars

\* The process is started in any environment; nothing else has happened.
DeviceIdStart ==
  /\ catalog = [file |-> NoFile, root |-> << >>]
  /\ lineup = [served |-> FALSE, body |-> << >>]
  /\ tuned = [requested |-> FALSE, entry |-> 0, url |-> << >>]
  /\ StreamIdle
  /\ \E e \in Envs : DeviceStart(e)
  /\ SsdpStart

\* The device descriptors are fetched.
DeviceIdNext == GetDiscover \/ GetDeviceXml

DeviceIdSpec == DeviceIdStart /\ [][DeviceIdNext]_vars

\* The process is started without HDHR_DEVICE_ID, or with a value for it.
IdentityStart ==
  /\ DeviceIdStart
  /\ env.node = DefaultEnv.node
  /\ env.HDHR_DEVICE_ID \in {None, << "1", "2", "3", "4", "A", "B", "C", "D" >>}

\* The stateless endpoints are called while the lineup is fetched, a stream
\* is requested, relayed and cleaned up, and the discovery threads start,
\* announce the device and fail.
IdentityNext ==
  \/ GetDiscover
  \/ GetDeviceXml
  \/ GetLineupStatus
  \/ LineupPost
  \/ GetLineup
  \/ SessionStep(1)
  \/ ListenerSetup
  \/ ListenerError
  \/ BroadcasterStart

IdentitySpec == IdentityStart /\ [][IdentityNext]_vars

\* ------------------------------------------------ claims on the sessions

\* A helper process was started for the request.
Streamed(s) == proc[s] # "none"

\* The handler has returned its response (and, for a stream, is relaying or
\* has finished).
Handled(s) == pc[s] \notin {"idle", "probe1", "fallback", "probe2", "select", "spawn"}

\* Number of times call occurs in a log of calls.
Count(log, call) == Cardinality({ i \in 1..Len(log) : log[i] = call })

\* C1: when a stream session is over, whichever way it ended, its helper
\* has been signalled to stop or has exited, and its stdout and stderr
\* handles have been closed.
HelperStoppedAndClosed ==
  \A s \in Sessions :
    (pc[s] = "done" /\ Streamed(s)) =>
      /\ Sent(s, "terminate") \/ Sent(s, "kill") \/ proc[s] = "exited"
      /\ stdout_closed[s]
      /\ stderr_closed[s]

\* C2: once the client's connection is closed the helper eventually stops
\* running, wherever the relay loop is at that moment.
DisconnectStopsHelper ==
  \A s \in Sessions : (client[s] = "closed") ~> (proc[s] # "running")

\* The cleanup contract on a log of calls: the handles are closed, and each
\* close of stdout comes right after terminate, wait (and, when the wait
\* timed out, kill) and right before the close of stderr.
ContractFollowed(log) ==
  /\ \E i \in 1..Len(log) : log[i] = "stdout.close"
  /\ \A i \in 1..Len(log) :
       log[i] = "stdout.close" =>
         /\ i < Len(log) /\ log[i + 1] = "stderr.close"
         /\ \/ i > 2 /\ log[i - 2] = "terminate" /\ log[i - 1] = "wait"
            \/ /\ i > 4
               /\ log[i - 4] = "terminate"
               /\ log[i - 3] = "wait"
               /\ log[i - 2] = "TimeoutExpired"
               /\ log[i - 1] = "kill"

\* C3: every way a stream session ends performs the same cleanup, in the
\* same order: terminate, wait, kill if the wait timed out, close stdout and
\* stderr.
SameCleanupOnEveryPath ==
  \A s \in Sessions : (pc[s] = "done" /\ Streamed(s)) => ContractFollowed(ops[s])

\* The steps of the disconnect handler's wait and of the on-close cleanup.
CleanupStep(s) ==
  \/ GenExitWaitReturns(s)
  \/ GenExitWaitExpires(s)
  \/ Cleanup(s)
  \/ CleanupWaitReturns(s)
  \/ CleanupWaitExpires(s)

\* The cleanup steps still ahead of a session's thread, at most.
StepsLeft(at) ==
  CASE at = "gx_wait" -> 3
    [] at = "on_close" -> 2
    [] at = "cl_wait" -> 1
    [] at = "done" -> 0
    [] OTHER -> 4

\* C4: a cleanup that has begun ends, also for a helper that ignores
\* terminate: while it has not ended its thread is never blocked (a wait
\* returns or times out, whatever the helper does), each of its steps brings
\* it closer to the end, and a wait that times out is followed by kill and
\* by the close of both handles, in the disconnect handler and in the
\* on-close cleanup.
CleanupTerminates ==
  /\ [](\A s \in Sessions :
          /\ pc[s] \in {"gx_wait", "on_close", "cl_wait"} => ENABLED CleanupStep(s)
          /\ Count(ops[s], "TimeoutExpired") = Count(ops[s], "kill")
          /\ Sent(s, "kill") => stdout_closed[s] /\ stderr_closed[s])
  /\ [][\A s \in Sessions :
          (pc[s] \in {"gx_wait", "on_close", "cl_wait"} /\ pc'[s] # pc[s])
            => StepsLeft(pc'[s]) < StepsLeft(pc[s])]_vars

\* C4 witness: a session is over whose helper ignored terminate: the wait
\* of the disconnect handler timed out and kill was sent, and the on-close
\* cleanup then sent terminate again and waited.
StubbornHelperCleanedTwice ==
  \E s \in Sessions :
    /\ pc[s] = "done"
    /\ resp_end[s] = "aborted"
    /\ Count(ops[s], "terminate") = 2
    /\ Count(ops[s], "wait") = 2
    /\ Sent(s, "kill")

\* C5: a request without a url parameter, or with an empty one, is answered
\* 400 with a JSON error, and no child process is started for it.
MissingUrlIs400 ==
  \A s \in Sessions :
    (pc[s] # "idle" /\ arg[s] \in {None, << >>}) =>
      resp[s] = UrlRequired /\ popen[s] = << >>

\* The first probe of the request exited with this outcome.
FirstProbe(s, outcome) == Len(popen[s]) >= 1 /\ popen[s][1].outcome = outcome

\* C6: a first probe that exits non-zero ends the request with the probe
\* error (500, error and details); no other tool and no helper is started.
ProbeFailureIsProbeError ==
  \A s \in Sessions :
    FirstProbe(s, "exit1") =>
      pc[s] = "done" /\ resp[s] = ProbeError /\ Len(popen[s]) = 1

\* C6 witness: a request whose first probe exited non-zero.
FirstProbeFailed == \E s \in Sessions : FirstProbe(s, "exit1")

\* The first probe succeeded and reported no variant.
ZeroVariants(s) ==
  /\ FirstProbe(s, "exit0")
  /\ popen[s][1].info.json = "ok"
  /\ ~popen[s][1].info.has_streams \/ popen[s][1].info.streams = {}

\* C7: zero variants for a URL of no video host end the request with the
\* no-stream error, the streams key being empty or absent, without fallback
\* and without helper.
ZeroVariantsElsewhereIsNoStream ==
  \A s \in Sessions :
    (pc[s] = "done" /\ ZeroVariants(s) /\ ~IsVideoHost(popen[s][1].url)) =>
      resp[s] = NoValidStreams /\ Len(popen[s]) = 1

\* The fallback tool was called once, second, on the source URL, and a
\* helper, if any, was started on the URL the fallback printed.
FallbackOnce(s) ==
  /\ { i \in 1..Len(popen[s]) : popen[s][i].cmd = "yt-dlp" } = {2}
  /\ popen[s][2].url = popen[s][1].url
  /\ \A i \in 1..Len(popen[s]) :
       popen[s][i].cmd = "helper" => popen[s][i].url = Strip(popen[s][2].text)

\* The third call is a probe of the URL the fallback printed.
SecondProbeOnFallbackUrl(s) ==
  /\ Len(popen[s]) >= 3
  /\ popen[s][3].cmd = "probe"
  /\ popen[s][3].url = Strip(popen[s][2].text)

\* C8 as stated: zero variants for a video-host URL are followed by one call
\* of the fallback tool and then by a second probe, on the URL it printed.
FallbackThenSecondProbe ==
  \A s \in Sessions :
    (Handled(s) /\ ZeroVariants(s) /\ IsVideoHost(popen[s][1].url)) =>
      FallbackOnce(s) /\ SecondProbeOnFallbackUrl(s)

\* C8 amended: zero variants for a video-host URL are followed by one call
\* of the fallback tool and, when that tool exits zero, by a second probe on
\* the URL it printed; a helper is started on that URL only.
FallbackThenSecondProbeIfPrinted ==
  \A s \in Sessions :
    (Handled(s) /\ ZeroVariants(s) /\ IsVideoHost(popen[s][1].url)) =>
      /\ FallbackOnce(s)
      /\ popen[s][2].outcome = "exit0" => SecondProbeOnFallbackUrl(s)

\* C8 witness: a helper runs on the fallback URL after a first probe with
\* zero variants.
HelperOnFallbackUrl ==
  \E s \in Sessions :
    /\ ZeroVariants(s)
    /\ Len(popen[s]) = 4
    /\ popen[s][4].outcome = "running"
    /\ popen[s][4].url # popen[s][1].url

\* ------------------------------------------------- claims on the lineup

\* The channel elements of a document whose <youtube-url> is present and
\* not blank.
Listed(root) ==
  { i \in 1..Len(root) :
      /\ root[i].youtube_url # None
      /\ \E j \in 1..Len(root[i].youtube_url) : root[i].youtube_url[j] \notin Whitespace }

\* C9: the lineup holds exactly one entry for each channel of the catalog
\* whose source URL is not empty after trimming, none for the others, in
\* catalog order, duplicates included, each entry's URL being the stream
\* prefix followed by the trimmed source URL.
LineupListsCatalog ==
  lineup.served =>
    \E f \in [1..Len(lineup.body) -> 1..Len(catalog.root)] :
      /\ \A j, k \in 1..Len(lineup.body) : j < k => f[j] < f[k]
      /\ { f[k] : k \in 1..Len(lineup.body) } = Listed(catalog.root)
      /\ \A k \in 1..Len(lineup.body) :
           lineup.body[k].URL
             = base_url \o StreamPrefix \o Strip(catalog.root[f[k]].youtube_url)

\* C9 witness: a lineup served from a document of two channels, the first
\* with a blank source URL and the second listed.
LineupSkipsBlank ==
  /\ lineup.served
  /\ Len(catalog.root) = 2
  /\ catalog.root[1].youtube_url = << " " >>
  /\ Len(lineup.body) = 1

\* C10: the url that /stream decodes from a lineup entry's stream URL is the
\* source URL of the channel the entry was built from.
LineupUrlRoundTrip ==
  tuned.requested =>
    tuned.url = get_channels_from_xml(catalog)[tuned.entry].youtube_url

\* ---------------------------------------------- claims on the discovery

\* For each datagram, whether it holds the query marker and the device type.
IsQuery == [k \in 1..Len(Datagrams) |-> IsSearch(Datagrams[k])]

\* C11: a datagram that holds the M-SEARCH marker and the exact device type
\* is answered with exactly one datagram, sent to its sender, whose LOCATION
\* is http://{host}:{port}/device.xml and whose USN is
\* uuid:{deviceId}::{deviceType}; any other datagram is not answered; and the
\* listener then waits for the next datagram.
QueryAnsweredOnce ==
  /\ [](heard # NoDatagram =>
          IF IsQuery[heard.datagram]
          THEN replies = << [to |-> heard.from,
                             LOCATION |-> base_url \o << "/", "d", "e", "v", "i", "c", "e",
                                                         ".", "x", "m", "l" >>,
                             ST |-> SSDP_DEVICE_TYPE,
                             USN |-> << "u", "u", "i", "d", ":" >> \o DEVICE_ID
                                       \o << ":", ":" >> \o SSDP_DEVICE_TYPE] >>
          ELSE replies = << >>)
  /\ [][heard' # heard => ssdp'["listener"] = "recv"]_vars

\* C12: a loop that ends takes nothing else with it: the step that ends one
\* loop leaves the other where it is; with the listener ended the broadcaster
\* can send its announcement when its time has come; with the broadcaster
\* ended the listener can receive; and the lineup API can answer.
LoopFailureIsContained ==
  /\ [][\A l \in Loops :
          (ssdp[l] # "ended" /\ ssdp'[l] = "ended")
            => \A m \in Loops \ {l} : ssdp'[m] = ssdp[m]]_vars
  /\ [](/\ (ssdp["listener"] = "ended" /\ ssdp["broadcaster"] = "start")
             => ENABLED BroadcasterStart
        /\ (ssdp["listener"] = "ended" /\ ssdp["broadcaster"] = "sleep"
              /\ now >= last + SleepSeconds)
             => ENABLED BroadcasterSend
        /\ (ssdp["broadcaster"] = "ended" /\ ssdp["listener"] = "recv")
             => ENABLED ListenerReceive
        /\ ENABLED GetLineupStatus)

\* C12 witness: the listener ended before it had received a datagram, and the
\* broadcaster has sent two announcements and sleeps.
ListenerDownBroadcasterUp ==
  /\ ssdp["listener"] = "ended"
  /\ heard = NoDatagram
  /\ ssdp["broadcaster"] = "sleep"
  /\ nsent = 2

\* The numbers of announcements in the first 65 seconds: at most 3, and at
\* least 2 once 65 seconds have passed with the broadcaster running; the
\* first is sent before the first sleep.
TwoOrThreeIn65Seconds ==
  /\ now <= 65 => nsent <= 3
  /\ (now >= 65 /\ ssdp["broadcaster"] # "ended") => nsent >= 2
  /\ ssdp["broadcaster"] = "sleep" => nsent >= 1

\* C13 as stated: the first announcement is sent at the start and one in
\* every interval of 30 seconds after it: 2 or 3 in 65 seconds, and no window
\* of 30 seconds without an announcement while the broadcaster runs.
AnnouncedEveryInterval ==
  /\ TwoOrThreeIn65Seconds
  /\ ssdp["broadcaster"] = "sleep" => now - last <= SleepSeconds

\* C13 amended: the first announcement is sent at the start and the next
\* ones 30 seconds, and at most the scheduling tolerance more, after the one
\* before: 2 or 3 in 65 seconds, and no window of 30 seconds plus the
\* tolerance without an announcement while the broadcaster runs.
AnnouncedEveryIntervalAndTolerance ==
  /\ [](/\ TwoOrThreeIn65Seconds
        /\ ssdp["broadcaster"] = "sleep" => now - last <= SleepSeconds + MaxJitter)
  /\ [][(nsent' = nsent + 1 /\ nsent >= 1) => now >= last + SleepSeconds]_vars

\* C13 witness: 65 seconds have passed and the third announcement has been
\* sent.
ThreeAnnouncementsAt65 ==
  /\ now = 65
  /\ nsent = 3
  /\ ssdp["broadcaster"] = "sleep"

\* ------------------------------------------ claims on the device identity

\* The characters that are hexadecimal digits.
HexChars ==
  { HexDigits[i] : i \in 1..Len(HexDigits) } \cup {"a", "b", "c", "d", "e", "f"}

\* HDHR_DEVICE_ID is set to a value (an empty value counts as none).
OverrideConfigured == env.HDHR_DEVICE_ID \notin {None, << >>}

\* C14: the device identifier is a string of exactly 8 hexadecimal digits:
\* without an override, the 8 low hexadecimal digits of the hardware
\* identifier, zeros included; with an override, the override.
DeviceIdIsEightHexDigits ==
  /\ Len(DEVICE_ID) = 8
  /\ \A i \in 1..Len(DEVICE_ID) : DEVICE_ID[i] \in HexChars
  /\ ~OverrideConfigured =>
       DEVICE_ID = [i \in 1..8 |-> HexDigits[env.node[Len(env.node) - 8 + i] + 1]]
  /\ OverrideConfigured => DEVICE_ID = env.HDHR_DEVICE_ID

\* C15: a body that /discover.json, /device.xml or /lineup_status.json has
\* returned is the body every later call returns, whatever happens between
\* the calls; no step changes the device identifier; and the status always
\* reports ScanInProgress 0.
IdentityBodiesNeverChange ==
  /\ [][\A p \in Endpoints : served[p] # << >> => served'[p] = served[p]]_vars
  /\ [][DEVICE_ID' = DEVICE_ID]_vars
  /\ [](served["/lineup_status.json"] # << >>
          => served["/lineup_status.json"][1].ScanInProgress = 0)

\* C15 witness: the three documents have been returned, and so have
\* /lineup.post and /lineup.json; a stream session has been relayed and
\* cleaned up; the broadcaster has announced the device and the listener has
\* ended.
IdentityServedAmidTraffic ==
  /\ \A p \in Endpoints : served[p] # << >>
  /\ lineup.served
  /\ pc[1] = "done" /\ Streamed(1) /\ stdout_closed[1]
  /\ nsent = 1
  /\ ssdp["listener"] = "ended"

\* ------------------------------------- further claims on the sessions

\* The fallback tool was run (second, after the first probe).
FallbackRan(s) == Len(popen[s]) >= 2 /\ popen[s][2].cmd = "yt-dlp"

\* The probe of the fallback URL was run and exited non-zero.
ReprobeFailed(s) ==
  FallbackRan(s) /\ Len(popen[s]) >= 3 /\ popen[s][3].outcome = "exit1"

\* The probe of the fallback URL printed a JSON object without a variant
\* named best.
ReprobeWithoutBest(s) ==
  /\ FallbackRan(s)
  /\ Len(popen[s]) >= 3
  /\ popen[s][3].outcome = "exit0"
  /\ popen[s][3].info.json = "ok"
  /\ "best" \notin popen[s][3].info.streams

\* C16: when the fallback tool exits non-zero, or the probe of the fallback
\* URL fails or reports no variant named best, the request ends with the
\* no-stream error and no helper is started.
NoVariantAfterFallbackIsNoStream ==
  \A s \in Sessions :
    (/\ pc[s] = "done"
     /\ \/ FallbackRan(s) /\ popen[s][2].outcome = "exit1"
        \/ ReprobeFailed(s)
        \/ ReprobeWithoutBest(s))
      => /\ resp[s] = NoValidStreams
         /\ \A i \in 1..Len(popen[s]) : popen[s][i].cmd # "helper"

\* Number of runs of a tool in a request.
Runs(s, cmd) == Cardinality({ i \in 1..Len(popen[s]) : popen[s][i].cmd = cmd })

\* C17: in one request the probe is run at most twice, first on the source
\* URL and the second time after the fallback tool, on the URL it printed;
\* the fallback tool at most once; the helper at most once.
NoRetries ==
  \A s \in Sessions :
    /\ Runs(s, "probe") <= 2
    /\ Runs(s, "yt-dlp") <= 1
    /\ Runs(s, "helper") <= 1
    /\ Len(popen[s]) >= 1 => popen[s][1].cmd = "probe" /\ popen[s][1].url = unquote(arg[s])
    /\ Runs(s, "probe") = 2 =>
         /\ popen[s][2].cmd = "yt-dlp"
         /\ popen[s][3].cmd = "probe"
         /\ popen[s][3].url = Strip(popen[s][2].text)

\* C17 witness: a request that ran the probe twice and the fallback tool,
\* and whose start of the helper failed.
EveryToolRan ==
  \E s \in Sessions :
    /\ pc[s] = "done"
    /\ Runs(s, "probe") = 2
    /\ Runs(s, "yt-dlp") = 1
    /\ Runs(s, "helper") = 1
    /\ resp[s] = Caught("OSError")

\* The relay loop of the session runs.
Relaying(s) == pc[s] \in {"read", "write"}

\* C18: every session that streams has a helper of its own, and a step of
\* one session's thread (its relay, its disconnect handler, its cleanup)
\* makes no call on another session's helper, closes none of its handles,
\* and leaves the other session's thread, helper and relayed chunks as they
\* are.
SessionsAreIndependent ==
  /\ [](\A s \in Sessions :
          Relaying(s) => Streamed(s) /\ Runs(s, "helper") = 1)
  /\ [][\A s, t \in Sessions :
          (s # t /\ pc'[s] # pc[s]) =>
            /\ ops'[t] = ops[t]
            /\ stdout_closed'[t] = stdout_closed[t]
            /\ stderr_closed'[t] = stderr_closed[t]
            /\ pc'[t] = pc[t]
            /\ proc'[t] = proc[t]
            /\ nread'[t] = nread[t]
            /\ resp_end'[t] = resp_end[t]]_vars

\* C18 witness: two clients of one channel; the session of the first is over
\* after its disconnect, its helper killed and its handles closed, and the
\* session of the second still relays from a running helper on which no call
\* was made.
OneSessionOverOtherRelays ==
  \E s, t \in Sessions :
    /\ s # t
    /\ url[s] = url[t]
    /\ pc[s] = "done" /\ resp_end[s] = "aborted" /\ Sent(s, "kill") /\ stdout_closed[s]
    /\ Relaying(t) /\ proc[t] = "running" /\ ops[t] = << >> /\ ~stdout_closed[t]

\* The handler of `except Exception` in generate() has run: terminate
\* followed at once by the close of stdout.
ReadErrorSeen(s) ==
  \E i \in 1..(Len(ops[s]) - 1) : ops[s][i] = "terminate" /\ ops[s][i + 1] = "stdout.close"

\* C19: after an error raised by the read in the relay loop the helper is
\* told to stop, its handles are closed, and the response does not end as a
\* complete one.
ReadErrorEndsInError ==
  \A s \in Sessions :
    ReadErrorSeen(s) =>
      /\ Sent(s, "terminate") /\ stdout_closed[s] /\ stderr_closed[s]
      /\ resp_end[s] # "complete"

\* The relay loop of the session has ended: on EOF, on a read error or on
\* the client's disconnect.
RelayOver(s) == Streamed(s) /\ pc[s] \in {"gx_wait", "on_close", "cl_wait", "done"}

\* C20: once the relay loop has ended no chunk is read or produced any
\* more, the loop does not start again, no process is started for the
\* session, and a helper that has exited does not run again; a session has
\* one helper at most.
NoRestartInPlace ==
  /\ [](\A s \in Sessions : Runs(s, "helper") <= 1)
  /\ [][\A s \in Sessions :
          /\ RelayOver(s) =>
               /\ nread'[s] = nread[s]
               /\ written'[s] = written[s]
               /\ popen'[s] = popen[s]
               /\ RelayOver(s)'
          /\ proc[s] = "exited" => proc'[s] = "exited"]_vars

\* C20 witness: a session is over after EOF: its chunk was relayed, the
\* response is complete and the cleanup has run.
SessionOverAfterEOF ==
  \E s \in Sessions :
    /\ pc[s] = "done"
    /\ resp_end[s] = "complete"
    /\ ~ReadErrorSeen(s)
    /\ nread[s] = MaxChunks
    /\ Sent(s, "poll")

\* The runs of the probe in a request, as positions in its log of Popen calls.
ProbeRuns(s) == { i \in 1..Len(popen[s]) : popen[s][i].cmd = "probe" }

\* The helper's Popen call was made and returned a process.
HelperStarted(s) ==
  \E i \in 1..Len(popen[s]) : popen[s][i].cmd = "helper" /\ popen[s][i].outcome = "running"

\* The request was answered with one of the error responses of the handler.
ErrorResponse(s) == resp[s].status \in {400, 404, 500}

\* C21: a helper is started only after the resolution has succeeded. The
\* last probe of the request printed a JSON object whose streams name best,
\* the helper's Popen call is the last of the request and comes after that
\* probe, and the request is answered with the stream, never with a 400, 404
\* or 500 error; a request answered with such an error has no helper.
HelperOnlyAfterResolution ==
  \A s \in Sessions :
    /\ (Streamed(s) \/ HelperStarted(s)) =>
         /\ Streamed(s) /\ HelperStarted(s)
         /\ ProbeRuns(s) # {}
         /\ LET i == CHOOSE j \in ProbeRuns(s) : \A k \in ProbeRuns(s) : k <= j IN
            /\ popen[s][i].info.json = "ok"
            /\ popen[s][i].info.has_streams
            /\ "best" \in popen[s][i].info.streams
            /\ popen[s][i].info = stream_info[s]
            /\ i + 1 = Len(popen[s])
         /\ popen[s][Len(popen[s])].cmd = "helper"
         /\ resp[s] = StreamResponse
    /\ ErrorResponse(s) => ~Streamed(s) /\ ~HelperStarted(s) /\ ops[s] = << >>

\* C21 witness: the first probe found no variant, the fallback tool printed
\* a URL, the second probe named best, and the helper runs on that URL and
\* is relayed with status 200.
HelperAfterSecondProbe ==
  \E s \in Sessions :
    /\ Len(popen[s]) = 4
    /\ popen[s][1].cmd = "probe" /\ NoStreams(popen[s][1].info)
    /\ popen[s][2].cmd = "yt-dlp"
    /\ popen[s][3].cmd = "probe" /\ "best" \in popen[s][3].info.streams
    /\ popen[s][4].cmd = "helper" /\ popen[s][4].outcome = "running"
    /\ proc[s] = "running"
    /\ Relaying(s)
    /\ resp[s].status = 200

\* ------------------------------------------- claims on the helper's stderr

\* A step of the helper process.
HelperStep(s) ==
  \/ HelperWrite(s)
  \/ HelperLog(s)
  \/ HelperCloseStdout(s)
  \/ HelperExit(s)

\* The helper is blocked in a write to the full pipe of its stderr, the
\* relay loop is blocked in its read of the helper's stdout, the client is
\* connected, and neither the session's thread nor the helper has a step it
\* can take: what is left is that the client goes away or the read fails.
StderrDeadlock(s) ==
  /\ proc[s] = "running"
  /\ blocked[s]
  /\ errbuf[s] = PipeChunks
  /\ pc[s] = "read"
  /\ client[s] = "connected"
  /\ ~stderr_closed[s]
  /\ ~ENABLED RelayStep(s)
  /\ ~ENABLED HelperStep(s)

\* C22: the relay cannot deadlock with its helper. There is no reachable
\* state in which the helper is blocked writing to the pipe of its stderr,
\* which nothing reads, while the relay loop is blocked reading the helper's
\* stdout with the client still connected.
NoStderrDeadlock == \A s \in Sessions : ~StderrDeadlock(s)

====
